---- MODULE Spec2Model ----
(***************************************************************************)
(* Model of pkg/queue/databusc/consumer.go: a Kafka consumer front-end.    *)
(* NewConsumer builds a consistent-hash ring, ThreadNum bounded queues and *)
(* one worker goroutine per queue.  Start spawns the poll/event loop, which*)
(* hands every message to SendToChannel (routing, enqueue, commit policy). *)
(* Close sets the close flag, waits for the loop and closes the queues.    *)
(*                                                                         *)
(* Threads of control: the loop goroutine (lpc), one goroutine per worker  *)
(* (wpc[w]) and the caller of Start/Close (closePc).                       *)
(***************************************************************************)
EXTENDS Integers, Sequences, FiniteSets, TLC

\* ---------------------------------------------------------------- bounds
\* Number of records the broker delivers in one run.
MaxMsgs == 3
\* The partitions of the topic and the ThreadNum values given by the caller.
Partitions == {0, 1}
ThreadNums == {1, 2}

\* ------------------------------------------------------ program constants
DefaultThreadNum == 51
QueueCap == 2
ExitCap == 1
CommitThreshold == 1000

\* Message keys: the empty key and one routing key.
Keys == {"", "a"}
NonEmptyKeys == Keys \ {""}
MsgKinds == [key : Keys, partition : Partitions]
NoMsg == [id |-> 0, key |-> "", partition |-> 0]

VARIABLES
    param,          \* handle.param: ConsumerMode, AutoCommitMode, ThreadNum
    givenThreadNum, \* history: param.ThreadNum as the caller passed it to NewConsumer
    sis,            \* handle.sis: the hash ring
    isclose,        \* handle.isclose, as written by Close
    iscloseSeen,    \* whether the loop goroutine's unsynchronised read sees the write
    wg,             \* handle.wg counter
    exit,           \* handle.exit (buffered channel, ConsumerMode 1)
    queuelist,      \* handle.queuelist[i]: buffered channel contents
    qclosed,        \* handle.queuelist[i] has been closed
    wpc, wmsg,      \* worker goroutine i: position and its local msg
    lpc, lmsg,      \* loop goroutine: position and the event's message
    index,          \* the loop goroutine's local index
    subscribed,     \* transport: a SubscribeTopics call has succeeded
    consumerClosed, \* transport: handle.consumer.Close() was called
    commitLog,      \* transport: the commit calls received, in order
    broker,         \* environment: records left on the topic and their kinds
    closePc, closeI,\* the caller of Close: position and loop variable i
    closeCalls,     \* history: number of calls of Close so far
    delivered,      \* history: number of message events handed to the loop
    sent,           \* history: <<message, queue index>> in enqueue order
    began, done,    \* history per worker: DealMessage invocations begun / returned
    faulted         \* history per worker: DealMessage invocations that panicked

vars == <<param, givenThreadNum, sis, isclose, iscloseSeen, wg, exit, queuelist, qclosed, wpc, wmsg,
          lpc, lmsg, index, consumerClosed, commitLog, subscribed, broker, closePc,
          closeI, closeCalls, delivered, sent, began, done, faulted>>

\* ------------------------------------------------------------ pure helpers
Digits == <<"0", "1", "2", "3", "4", "5", "6", "7", "8", "9">>

IsDigit(c) == \E d \in 1..10 : Digits[d] = c
DigitVal(c) == (CHOOSE d \in 1..10 : Digits[d] = c) - 1

\* fmt.Sprintf("%d", i) for i >= 0: the decimal digits, most significant first.
RECURSIVE Sprintf_d(_)
Sprintf_d(i) ==
    IF i < 10 THEN <<Digits[i + 1]>>
    ELSE Append(Sprintf_d(i \div 10), Digits[(i % 10) + 1])

\* strconv.Atoi on an unsigned digit string: err on "" or on a non-digit.
RECURSIVE AtoiDigits(_, _)
AtoiDigits(s, acc) ==
    IF s = <<>> THEN acc
    ELSE AtoiDigits(Tail(s), acc * 10 + DigitVal(Head(s)))

Atoi(s) ==
    IF s = <<>> \/ \E k \in 1..Len(s) : ~IsDigit(s[k])
    THEN [err |-> TRUE, val |-> 0]
    ELSE [err |-> FALSE, val |-> AtoiDigits(s, 0)]

\* int32(x) for an int x: the identity on -2^31..2^31-1, which holds every
\* value converted here (ThreadNum and a parsed ring member).
Int32(x) == x

\* Mutant of GoRem: the quotient in place of the remainder.
GoQuo(a, b) == a \div b

\* Go's % truncates toward zero.
GoRem(a, b) == IF a >= 0 THEN a % b ELSE 0 - ((0 - a) % b)

\* ThreadNum after NewConsumer's defaulting.
EffectiveThreadNum(n) == IF n <= 0 THEN DefaultThreadNum ELSE n

\* Mutant of RingMembers: the Add loop counts from 1.
RingMembersFromOne(n) == {Sprintf_d(i) : i \in 1..n}

\* The ring's members after the Add loop of NewConsumer.
RingMembers(n) == {Sprintf_d(i) : i \in 0..(n - 1)}

\* Consistent.Get: an error on an empty ring, else the member the key hashes to.
Get(ring, key) ==
    IF ring.members = {} THEN [err |-> TRUE, val |-> <<>>]
    ELSE [err |-> FALSE, val |-> ring.hash[key]]

ThreadNum == param.ThreadNum
Workers == 0..(ThreadNum - 1)
AllWorkers == UNION {0..(EffectiveThreadNum(n) - 1) : n \in ThreadNums}

\* Mutant of Destination: the key is ignored and the partition alone decides.
DestinationByPartition(msg) == GoRem(msg.partition, Int32(ThreadNum))

\* Mutant of Destination: the result of Atoi is used without looking at converr.
DestinationUnchecked(msg) ==
    LET key == msg.key
        got == IF key # "" THEN Get(sis, key) ELSE [err |-> TRUE, val |-> <<>>]
        conv == IF got.err THEN [err |-> TRUE, val |-> 0] ELSE Atoi(got.val)
        iseffective == key # "" /\ ~got.err
    IN  IF iseffective THEN Int32(conv.val)
        ELSE GoRem(msg.partition, Int32(ThreadNum))

\* SendToChannel's destination index mod for msg.
Destination(msg) ==
    LET key == msg.key
        got == IF key # "" THEN Get(sis, key) ELSE [err |-> TRUE, val |-> <<>>]
        conv == IF got.err THEN [err |-> TRUE, val |-> 0] ELSE Atoi(got.val)
        iseffective == key # "" /\ ~got.err /\ ~conv.err
    IN  IF iseffective THEN Int32(conv.val)
        ELSE GoRem(msg.partition, Int32(ThreadNum))

\* The caller's index after SendToChannel(e, index) returns: index is passed by
\* value, so the callee's reset and increment are lost.
IndexAfterSend(idx) == idx

\* SendToChannel's commit policy: the calls it makes on the transport.
BulkCommit(site) == [call |-> "Commit", site |-> site, id |-> 0]
MsgCommit(msg) == [call |-> "CommitMessage", site |-> "send", id |-> msg.id]

\* Mutant of CommitPolicy: AutoCommitMode 1 issues the bulk Commit as well.
CommitPolicyBulk(msg, idx) ==
    IF param.AutoCommitMode \in {0, 1}
    THEN IF idx > CommitThreshold \/ param.AutoCommitMode = 1
         THEN <<BulkCommit("batch")>> ELSE <<>>
    ELSE <<>>

CommitPolicy(msg, idx) ==
    IF param.AutoCommitMode = 0
    THEN IF idx > CommitThreshold THEN <<BulkCommit("batch")>> ELSE <<>>
    ELSE IF param.AutoCommitMode = 1 THEN <<MsgCommit(msg)>>
    ELSE <<>>

\* Mutant of FinalCommit: the final Commit is issued in every mode.
FinalCommitAlways == <<BulkCommit("final")>>

\* The final commit of the loop goroutine.
FinalCommit ==
    IF param.AutoCommitMode # 1 THEN <<BulkCommit("final")>> ELSE <<>>

\* Mutant of ReadIsClose: the loop also ends when the topic has no record left.
ReadIsCloseOrDrained == (isclose /\ iscloseSeen) \/ broker.remaining = 0

\* What the loop goroutine reads from handle.isclose: an unsynchronised read
\* returns the initial false until Close's write has become visible to it.
ReadIsClose == isclose /\ iscloseSeen

\* Mutant of RecvOk: a closed channel stops yielding its buffered messages.
RecvOkUntilClosed(q, closed) == Len(q) > 0 /\ ~closed

\* Mutant of Receive: the newest buffered message is taken first.
ReceiveNewest(q) == q[Len(q)]

\* msg, ok := <-ch on a buffered channel: ok while a buffered message is left,
\* also after close(ch); the message received is the oldest one.
RecvOk(q, closed) == Len(q) > 0
Receive(q) == Head(q)

\* Mutant of QueueFull: a send never finds the queue full.
QueueNeverFull(q) == FALSE

\* ch <- v on a channel made with capacity QueueCap blocks while the buffer
\* holds QueueCap values.
QueueFull(q) == Len(q) >= QueueCap

\* ------------------------------------------------------------------- Init
\* The handle NewConsumer returns, but for its ring.
InitHandle(cmodes, amodes, threadNums, remaining, kinds) ==
    /\ \E cm \in cmodes, am \in amodes, tn \in threadNums :
          /\ givenThreadNum = tn
          /\ param = [ConsumerMode |-> cm, AutoCommitMode |-> am,
                      ThreadNum |-> EffectiveThreadNum(tn)]
    /\ isclose = FALSE
    /\ iscloseSeen = FALSE
    /\ wg = 1
    /\ exit = <<>>
    /\ queuelist = [i \in Workers |-> <<>>]
    /\ qclosed = [i \in Workers |-> FALSE]
    /\ wpc = [i \in Workers |-> "recv"]
    /\ wmsg = [i \in Workers |-> NoMsg]
    /\ lpc = "idle"
    /\ lmsg = NoMsg
    /\ index = 0
    /\ subscribed = FALSE
    /\ consumerClosed = FALSE
    /\ commitLog = <<>>
    /\ broker = [remaining |-> remaining, kinds |-> kinds]
    /\ closePc = "idle"
    /\ closeI = 0
    /\ closeCalls = 0
    /\ delivered = 0
    /\ sent = <<>>
    /\ began = [i \in Workers |-> <<>>]
    /\ done = [i \in Workers |-> <<>>]
    /\ faulted = [i \in Workers |-> <<>>]

\* The handle with the ring NewConsumer fills: the key-to-member function is
\* the ring's, any one of them.
InitWith(cmodes, amodes, threadNums, remaining, kinds) ==
    /\ InitHandle(cmodes, amodes, threadNums, remaining, kinds)
    /\ \E h \in [NonEmptyKeys -> RingMembers(ThreadNum)] :
          sis = [members |-> RingMembers(ThreadNum), hash |-> h]

Init == InitWith({0, 1}, {0, 1, 2}, ThreadNums, MaxMsgs, MsgKinds)

\* A ring library that behaves as SendToChannel provides for: Get may return an
\* error (here: a ring without members) or a name that is not a numeral.
NotNumeral == <<"x">>
InitRoute ==
    /\ InitHandle({0, 1}, {2}, ThreadNums, MaxMsgs - 1, MsgKinds)
    /\ \/ \E h \in [NonEmptyKeys -> RingMembers(ThreadNum) \cup {NotNumeral}] :
             sis = [members |-> RingMembers(ThreadNum) \cup {NotNumeral}, hash |-> h]
       \/ sis = [members |-> {}, hash |-> [k \in NonEmptyKeys |-> <<>>]]

\* A shorter topic and one commit mode: the runs on which progress is checked.
LiveKinds == {[key |-> "", partition |-> 1], [key |-> "a", partition |-> 0]}
InitLive == InitWith({0, 1}, {2}, ThreadNums, MaxMsgs - 1, LiveKinds)

\* Two workers and a topic long enough to fill a queue whose worker has taken
\* one message: QueueCap more stay in the queue and one more is on its way.
InitIsolation == InitWith({0, 1}, {2}, {2}, MaxMsgs + 1, LiveKinds)

\* NewConsumer called with ThreadNum unset (0), negative, or positive; one record.
ConstructThreadNums == {-1, 0, 1, 2}
ConstructWorkers == UNION {0..(EffectiveThreadNum(n) - 1) : n \in ConstructThreadNums}
InitConstruct == InitWith({0, 1}, {2}, ConstructThreadNums, 1, MsgKinds)

\* AutoCommitMode 0.  In poll mode: one worker and a topic of identical keyless
\* records, long enough to pass the commit threshold.  In event-channel mode,
\* which shares SendToChannel, the topic of Init.
InitBatch ==
    \/ InitWith({0}, {0}, {1}, CommitThreshold + 2, {[key |-> "", partition |-> 0]})
    \/ InitWith({1}, {0}, ThreadNums, MaxMsgs, MsgKinds)

\* ------------------------------------------------------ the caller: Start
Start ==
    /\ lpc = "idle"
    /\ lpc' = "subscribe"
    /\ UNCHANGED <<param, givenThreadNum, sis, isclose, iscloseSeen, wg, exit, queuelist, qclosed,
                   wpc, wmsg, lmsg, index, consumerClosed, commitLog, subscribed,
                   broker, closePc, closeI, closeCalls, delivered, sent, began, done, faulted>>

\* -------------------------------------------------------- loop goroutine
loopRest == <<param, givenThreadNum, sis, isclose, wg, queuelist, qclosed, wpc, wmsg, consumerClosed,
              broker, closePc, closeI, closeCalls, began, done, faulted>>

\* Mutant of AfterSubscribe: the loop is entered after a failed attempt as well.
AfterSubscribeGiveUp(ok) == "check"

\* Where the goroutine goes after SubscribeTopics: err == nil breaks out of the
\* retry loop, an error leads to the one-second sleep.
AfterSubscribe(ok) == IF ok THEN "check" ELSE "subsleep"

\* SubscribeTopics: on error sleep one second and retry, else enter the loop.
LoopSubscribe ==
    /\ lpc = "subscribe"
    /\ \E ok \in BOOLEAN :
          /\ subscribed' = ok
          /\ lpc' = AfterSubscribe(ok)
    /\ index' = IF lpc' = "check" THEN 0 ELSE index
    /\ UNCHANGED loopRest
    /\ UNCHANGED <<iscloseSeen, exit, lmsg, commitLog, delivered, sent>>

LoopSubscribeRetry ==
    /\ lpc = "subsleep"
    /\ lpc' = "subscribe"
    /\ UNCHANGED loopRest
    /\ UNCHANGED <<iscloseSeen, exit, lmsg, index, commitLog, subscribed, delivered, sent>>

\* for handle.isclose == false
LoopCheck ==
    /\ lpc = "check"
    /\ lpc' = IF ReadIsClose THEN "final"
              ELSE IF param.ConsumerMode = 0 THEN "poll" ELSE "select"
    /\ UNCHANGED loopRest
    /\ UNCHANGED <<iscloseSeen, exit, lmsg, index, commitLog, subscribed, delivered, sent>>

\* A message event: the next record of the topic.
TakeMessage(kind) ==
    /\ broker.remaining > 0
    /\ kind \in broker.kinds
    /\ broker' = [broker EXCEPT !.remaining = @ - 1]
    /\ delivered' = delivered + 1
    /\ lmsg' = [id |-> delivered + 1, key |-> kind.key, partition |-> kind.partition]

\* What Poll(100) can return, by the cases of the switch on its type: nil, a
\* message, a kafka.Error with and without ErrAllBrokersDown, anything else.
PollEvents == {"nil", "Message", "Error", "ErrAllBrokersDown", "Other"}

\* What the transport's event channel can yield, by the cases of the switch.
SelectEvents == {"AssignedPartitions", "RevokedPartitions", "Message",
                 "PartitionEOF", "Error", "Other"}

\* Mutant of PollTarget: a kafka.Error is passed to SendToChannel.
PollTargetSendsError(ev) ==
    IF ev \in {"Message", "Error"} THEN "send"
    ELSE IF ev = "ErrAllBrokersDown" THEN "backoff"
    ELSE "check"

\* Where the poll-mode switch leads for an event.
PollTarget(ev) ==
    IF ev = "Message" THEN "send"
    ELSE IF ev = "ErrAllBrokersDown" THEN "backoff"
    ELSE "check"

\* Where the event-channel switch leads for an event.
SelectTarget(ev) ==
    IF ev = "Message" THEN "send"
    ELSE IF ev = "AssignedPartitions" THEN "assign"
    ELSE IF ev = "RevokedPartitions" THEN "unassign"
    ELSE "check"

loopRestNoBroker == <<param, givenThreadNum, sis, isclose, wg, queuelist, qclosed, wpc, wmsg,
                      consumerClosed, closePc, closeI, closeCalls, began, done, faulted>>

\* ConsumerMode 0: ev := Poll(100) returns ev, and the switch on its type.
LoopPollEvent(ev) ==
    /\ lpc = "poll"
    /\ IF ev = "Message" THEN \E kind \in MsgKinds : TakeMessage(kind)
       ELSE UNCHANGED <<broker, delivered, lmsg>>
    /\ lpc' = PollTarget(ev)
    /\ UNCHANGED loopRestNoBroker
    /\ UNCHANGED <<iscloseSeen, exit, index, commitLog, subscribed, sent>>

LoopPoll == \E ev \in PollEvents : LoopPollEvent(ev)

\* time.Sleep(1s) after ErrAllBrokersDown is over.
LoopBackoffWake ==
    /\ lpc = "backoff"
    /\ lpc' = "check"
    /\ UNCHANGED loopRest
    /\ UNCHANGED <<iscloseSeen, exit, lmsg, index, commitLog, subscribed, delivered, sent>>

\* ConsumerMode 1, case <-handle.exit: break (out of the select only).
LoopSelectExit ==
    /\ lpc = "select"
    /\ Len(exit) > 0
    /\ exit' = Tail(exit)
    /\ iscloseSeen' = TRUE          \* the receive is ordered after Close's write
    /\ lpc' = "check"
    /\ UNCHANGED loopRest
    /\ UNCHANGED <<lmsg, index, commitLog, subscribed, delivered, sent>>

\* ConsumerMode 1, case ev := <-handle.consumer.Events() and the switch on its
\* type.
LoopSelectEvent(ev) ==
    /\ lpc = "select"
    /\ IF ev = "Message" THEN \E kind \in MsgKinds : TakeMessage(kind)
       ELSE UNCHANGED <<broker, delivered, lmsg>>
    /\ lpc' = SelectTarget(ev)
    /\ UNCHANGED loopRestNoBroker
    /\ UNCHANGED <<iscloseSeen, exit, index, commitLog, subscribed, sent>>

\* ConsumerMode 1: select on handle.exit and the transport's event channel.
LoopSelect ==
    \/ LoopSelectExit
    \/ \E ev \in SelectEvents : LoopSelectEvent(ev)

\* handle.consumer.Assign(e.Partitions) / handle.consumer.Unassign(): calls on the
\* transport only; the assignment itself is the transport's state.
LoopAssign ==
    /\ lpc \in {"assign", "unassign"}
    /\ lpc' = "check"
    /\ UNCHANGED loopRest
    /\ UNCHANGED <<iscloseSeen, exit, lmsg, index, commitLog, subscribed, delivered, sent>>

\* SendToChannel up to handle.queuelist[mod] <- msg.  An index outside the slice
\* or a send on a closed channel panics; the goroutine's recover swallows it and
\* the goroutine ends without wg.Done().  A full queue blocks.
LoopSend ==
    /\ lpc = "send"
    /\ LET mod == Destination(lmsg) IN
          IF mod \notin Workers \/ qclosed[mod]
          THEN /\ lpc' = "panicked"
               /\ UNCHANGED <<queuelist, sent>>
          ELSE /\ ~QueueFull(queuelist[mod])
               /\ queuelist' = [queuelist EXCEPT ![mod] = Append(@, lmsg)]
               /\ sent' = Append(sent, [msg |-> lmsg, mod |-> mod])
               /\ lpc' = "commit"
    /\ UNCHANGED <<param, givenThreadNum, sis, isclose, iscloseSeen, wg, exit, qclosed, wpc, wmsg, lmsg,
                   index, consumerClosed, commitLog, subscribed, broker, closePc, closeI, closeCalls,
                   delivered, began, done, faulted>>

\* The rest of SendToChannel: the commit policy, then return to the loop.
LoopCommit ==
    /\ lpc = "commit"
    /\ commitLog' = commitLog \o CommitPolicy(lmsg, index)
    /\ index' = IndexAfterSend(index)
    /\ lpc' = "check"
    /\ UNCHANGED loopRest
    /\ UNCHANGED <<iscloseSeen, exit, lmsg, subscribed, delivered, sent>>

\* After the loop: the final Commit unless AutoCommitMode is 1.
LoopFinalCommit ==
    /\ lpc = "final"
    /\ commitLog' = commitLog \o FinalCommit
    /\ lpc' = "wgdone"
    /\ UNCHANGED loopRest
    /\ UNCHANGED <<iscloseSeen, exit, lmsg, index, subscribed, delivered, sent>>

\* handle.wg.Done()
LoopDone ==
    /\ lpc = "wgdone"
    /\ wg' = wg - 1
    /\ lpc' = "exited"
    /\ UNCHANGED <<param, givenThreadNum, sis, isclose, iscloseSeen, exit, queuelist, qclosed, wpc, wmsg,
                   lmsg, index, consumerClosed, commitLog, subscribed, broker, closePc,
                   closeI, closeCalls, delivered, sent, began, done, faulted>>

\* Close's write of handle.isclose becomes visible to the loop goroutine.
IsCloseVisible ==
    /\ isclose
    /\ ~iscloseSeen
    /\ iscloseSeen' = TRUE
    /\ UNCHANGED <<param, givenThreadNum, sis, isclose, wg, exit, queuelist, qclosed, wpc, wmsg, lpc,
                   lmsg, index, consumerClosed, commitLog, subscribed, broker, closePc,
                   closeI, closeCalls, delivered, sent, began, done, faulted>>

LoopThread ==
    \/ LoopSubscribe \/ LoopSubscribeRetry \/ LoopCheck \/ LoopPoll
    \/ LoopBackoffWake \/ LoopSelect \/ LoopAssign \/ LoopSend \/ LoopCommit
    \/ LoopFinalCommit \/ LoopDone

\* ------------------------------------------------------ worker goroutines
workerRest == <<param, givenThreadNum, sis, isclose, iscloseSeen, wg, exit, qclosed, lpc, lmsg, index,
                consumerClosed, subscribed, broker, closePc, closeI, closeCalls,
                delivered, sent>>

\* Mutant of AfterDeal: the worker commits the message it has handled.
AfterDealCommit(msg) == <<MsgCommit(msg)>>

\* The calls a worker makes on the transport after DealMessage has returned:
\* none, the loop body ends with the call of DealMessage.
AfterDeal(msg) == <<>>

\* msg, ok := <-handle.queuelist[index]
WorkerRecv(w) ==
    /\ w \in Workers
    /\ wpc[w] = "recv"
    /\ IF RecvOk(queuelist[w], qclosed[w])
       THEN /\ wmsg' = [wmsg EXCEPT ![w] = Receive(queuelist[w])]
            /\ queuelist' = [queuelist EXCEPT ![w] = Tail(@)]
            /\ began' = [began EXCEPT ![w] = Append(@, Receive(queuelist[w]).id)]
            /\ wpc' = [wpc EXCEPT ![w] = "deal"]
       ELSE /\ qclosed[w]          \* ok = false: break
            /\ wpc' = [wpc EXCEPT ![w] = "exited"]
            /\ UNCHANGED <<wmsg, queuelist, began>>
    /\ UNCHANGED workerRest
    /\ UNCHANGED <<commitLog, done, faulted>>

\* DealMessage returns.
WorkerReturn(w) ==
    /\ w \in Workers
    /\ wpc[w] = "deal"
    /\ done' = [done EXCEPT ![w] = Append(@, wmsg[w].id)]
    /\ commitLog' = commitLog \o AfterDeal(wmsg[w])
    /\ wpc' = [wpc EXCEPT ![w] = "recv"]
    /\ UNCHANGED workerRest
    /\ UNCHANGED <<wmsg, queuelist, began, faulted>>

\* Where a worker goroutine is after its deferred recover has handled a panic of
\* DealMessage: the defer belongs to the goroutine's function, so the for loop
\* has been unwound and the goroutine ends.
AfterRecover == "dead"

\* DealMessage panics.
WorkerPanic(w) ==
    /\ w \in Workers
    /\ wpc[w] = "deal"
    /\ faulted' = [faulted EXCEPT ![w] = Append(@, wmsg[w].id)]
    /\ wpc' = [wpc EXCEPT ![w] = AfterRecover]
    /\ UNCHANGED workerRest
    /\ UNCHANGED <<commitLog, wmsg, queuelist, began, done>>

Worker(w) == WorkerRecv(w) \/ WorkerReturn(w) \/ WorkerPanic(w)

\* ------------------------------------------------------ the caller: Close
closeRest == <<param, givenThreadNum, sis, iscloseSeen, wg, queuelist, wpc, wmsg, lpc, lmsg, index,
               commitLog, subscribed, broker, delivered, sent, began, done, faulted>>

\* Close is called after Start, for the first time or again after an earlier
\* call has returned: handle.isclose = true.  A further call never returns (see
\* CloseSignal and CloseQueue), so closeCalls stays within 0..2.
CloseCall ==
    /\ closePc \in {"idle", "returned"}
    /\ lpc # "idle"
    /\ isclose' = TRUE
    /\ closeCalls' = closeCalls + 1
    /\ closePc' = IF param.ConsumerMode = 1 THEN "signal" ELSE "wait"
    /\ UNCHANGED closeRest
    /\ UNCHANGED <<exit, qclosed, consumerClosed, closeI>>

\* handle.exit <- 1: blocks while the buffer of handle.exit is full.
CloseSignal ==
    /\ closePc = "signal"
    /\ Len(exit) < ExitCap
    /\ exit' = Append(exit, 1)
    /\ closePc' = "wait"
    /\ UNCHANGED closeRest
    /\ UNCHANGED <<isclose, qclosed, consumerClosed, closeI, closeCalls>>

\* Mutant of WaitReturns: Close does not wait for the loop goroutine.
WaitReturnsAtOnce == TRUE

\* What handle.wg.Wait() waits for.
WaitReturns == wg = 0

CloseWait ==
    /\ closePc = "wait"
    /\ WaitReturns
    /\ closePc' = "queues"
    /\ closeI' = 0
    /\ UNCHANGED closeRest
    /\ UNCHANGED <<isclose, exit, qclosed, consumerClosed, closeCalls>>

\* for i := 0; i < ThreadNum; i++ { close(handle.queuelist[i]) }
\* close of a channel that is already closed panics; Close has no recover, so
\* the panic leaves Close and reaches its caller.
CloseQueue ==
    /\ closePc = "queues"
    /\ IF closeI < ThreadNum
       THEN IF qclosed[closeI]
            THEN /\ closePc' = "panicked"
                 /\ UNCHANGED <<qclosed, closeI>>
            ELSE /\ qclosed' = [qclosed EXCEPT ![closeI] = TRUE]
                 /\ closeI' = closeI + 1
                 /\ UNCHANGED closePc
       ELSE /\ closePc' = "transport"
            /\ UNCHANGED <<qclosed, closeI>>
    /\ UNCHANGED closeRest
    /\ UNCHANGED <<isclose, exit, consumerClosed, closeCalls>>

\* handle.consumer.Close(), then Close returns.
CloseTransport ==
    /\ closePc = "transport"
    /\ consumerClosed' = TRUE
    /\ closePc' = "returned"
    /\ UNCHANGED closeRest
    /\ UNCHANGED <<isclose, exit, qclosed, closeI, closeCalls>>

CloseThread == CloseSignal \/ CloseWait \/ CloseQueue \/ CloseTransport

\* ------------------------------------------------------------------- Next
Next ==
    \/ Start
    \/ LoopSubscribe
    \/ LoopSubscribeRetry
    \/ LoopCheck
    \/ LoopPoll
    \/ LoopBackoffWake
    \/ LoopSelect
    \/ LoopAssign
    \/ LoopSend
    \/ LoopCommit
    \/ LoopFinalCommit
    \/ LoopDone
    \/ IsCloseVisible
    \/ \E w \in AllWorkers : WorkerRecv(w)
    \/ \E w \in AllWorkers : WorkerReturn(w)
    \/ \E w \in AllWorkers : WorkerPanic(w)
    \/ CloseCall
    \/ CloseSignal
    \/ CloseWait
    \/ CloseQueue
    \/ CloseTransport

Spec == Init /\ [][Next]_vars

\* The consumer between Start and Close, for every worker count NewConsumer
\* can produce.  Without Close nothing is ever sent on handle.exit, so the
\* select only takes events.
ConstructNext ==
    \/ Start
    \/ LoopSubscribe
    \/ LoopSubscribeRetry
    \/ LoopCheck
    \/ LoopPoll
    \/ LoopBackoffWake
    \/ \E ev \in SelectEvents : LoopSelectEvent(ev)
    \/ LoopAssign
    \/ LoopSend
    \/ LoopCommit
    \/ \E w \in ConstructWorkers : WorkerRecv(w)
    \/ \E w \in ConstructWorkers : WorkerReturn(w)
    \/ \E w \in ConstructWorkers : WorkerPanic(w)

ConstructSpec == InitConstruct /\ [][ConstructNext]_vars

IsolationSpec == InitIsolation /\ [][Next]_vars

RouteSpec == InitRoute /\ [][ConstructNext]_vars

BatchSpec == InitBatch /\ [][Next]_vars

\* Every goroutine that can take a step eventually takes one, a handler that was
\* called eventually ends, and a write to memory eventually becomes visible.
\* Which event the transport delivers, and whether Close is called, is left open.
Fairness ==
    /\ WF_vars(LoopThread)
    /\ WF_vars(CloseThread)
    /\ WF_vars(IsCloseVisible)
    /\ \A w \in AllWorkers : WF_vars(Worker(w))

FairSpec == Spec /\ Fairness

LiveSpec == InitLive /\ [][Next]_vars /\ Fairness

\* ------------------------------------------------------ claim vocabulary
\* The ids of the messages enqueued on queue w, in enqueue order.
SentTo(w) ==
    LET es == SelectSeq(sent, LAMBDA e : e.mod = w)
    IN  [k \in 1..Len(es) |-> es[k].msg.id]

SeqToSet(q) == {q[k] : k \in 1..Len(q)}

\* Messages whose SendToChannel call has returned.
Dispatched == Len(sent) - (IF lpc = "commit" THEN 1 ELSE 0)

CommitsAt(site) == Len(SelectSeq(commitLog, LAMBDA c : c.site = site))

LoopOver == lpc \in {"wgdone", "exited"}

\* C1: on every worker, DealMessage is invoked in enqueue order, and the
\* invocation for a message begins only after the invocation for every message
\* enqueued before it on that queue has returned.
C1_PerWorkerOrder ==
    \A w \in Workers :
        LET q == SentTo(w) IN
        /\ Len(began[w]) <= Len(q)
        /\ \A j \in 1..Len(began[w]) : began[w][j] = q[j]
        /\ \A j \in 2..Len(began[w]) :
              /\ j - 1 <= Len(done[w])
              /\ done[w][j - 1] = q[j - 1]

\* Two messages with the same non-empty key were enqueued on one queue and the
\* worker has begun the second.
C1_Witness ==
    \E w \in Workers :
        /\ Len(began[w]) >= 2
        /\ \E i, j \in 1..Len(sent) :
              /\ i < j
              /\ sent[i].mod = w /\ sent[j].mod = w
              /\ sent[i].msg.key # "" /\ sent[i].msg.key = sent[j].msg.key
              /\ began[w][1] = sent[i].msg.id /\ began[w][2] = sent[j].msg.id

\* C2: any two messages with the same non-empty key are enqueued on the same
\* worker queue, whatever their partitions and whatever was sent in between.
C2_StickyRouting ==
    \A i, j \in 1..Len(sent) :
        (sent[i].msg.key # "" /\ sent[i].msg.key = sent[j].msg.key)
            => sent[i].mod = sent[j].mod

\* Two messages with one key and different partitions, a message of another key
\* between them, on a consumer with two workers.
C2_Witness ==
    /\ ThreadNum = 2
    /\ \E i, k, j \in 1..Len(sent) :
          /\ i < k /\ k < j
          /\ sent[i].msg.key # "" /\ sent[i].msg.key = sent[j].msg.key
          /\ sent[i].msg.partition # sent[j].msg.partition
          /\ sent[k].msg.key # sent[i].msg.key
          /\ sent[k].mod # sent[i].mod

\* C3: a message with an empty key and partition p is enqueued on the queue of
\* worker p mod ThreadNum.
C3_KeylessModulo ==
    \A i \in 1..Len(sent) :
        sent[i].msg.key = ""
            => sent[i].mod = sent[i].msg.partition % ThreadNum

\* Keyless messages of partitions 0 and 1 on two workers, each on its own queue.
C3_Witness ==
    /\ ThreadNum = 2
    /\ \E i, j \in 1..Len(sent) :
          /\ sent[i].msg.key = "" /\ sent[j].msg.key = ""
          /\ sent[i].msg.partition = 0 /\ sent[i].mod = 0
          /\ sent[j].msg.partition = 1 /\ sent[j].mod = 1

\* C4: under AutoCommitMode 0 the bulk commits issued by SendToChannel number
\* one per CommitThreshold dispatched messages, and the loop adds exactly one
\* when it exits.
C4_BatchCommitEveryThreshold ==
    param.AutoCommitMode = 0 =>
        /\ CommitsAt("batch") = Dispatched \div CommitThreshold
        /\ CommitsAt("final") = (IF LoopOver THEN 1 ELSE 0)

\* C5: once Close has been called (after Start) it returns, unless a handler
\* has faulted.
C5_CloseTerminates ==
    (closePc # "idle") ~> (closePc = "returned" \/ \E w \in Workers : wpc[w] = "dead")

\* What queue w received is what its worker has taken followed by what the queue
\* still holds, no message is taken twice or by another worker, and a worker
\* leaves its loop only on a closed and empty queue.
C6_HandledOnlyByOwner ==
    /\ \A w \in Workers :
          /\ SeqToSet(began[w]) \subseteq SeqToSet(SentTo(w))
          /\ Cardinality(SeqToSet(began[w])) = Len(began[w])
    /\ \A w \in Workers :
          /\ SentTo(w) = began[w] \o [k \in 1..Len(queuelist[w]) |-> queuelist[w][k].id]
          /\ wpc[w] = "exited" => qclosed[w] /\ queuelist[w] = <<>>

\* C6: a message is handled at most once and only by the worker that owns the
\* queue it was enqueued on, and every message enqueued on a queue is eventually
\* passed to DealMessage by that worker unless a handler fault has ended the
\* worker; this includes what is in the queue when Close closes it.
C6_NoSilentDrop ==
    /\ []C6_HandledOnlyByOwner
    /\ \A w \in AllWorkers : \A k \in 1..MaxMsgs :
          (w \in Workers /\ Len(SentTo(w)) >= k)
              ~> (w \in Workers /\ (Len(began[w]) >= k \/ wpc[w] = "dead"))

\* Close has closed a queue that still holds a message while its worker is
\* busy with an earlier one.
C6_Witness ==
    \E w \in Workers :
        /\ qclosed[w]
        /\ Len(queuelist[w]) > 0
        /\ wpc[w] = "deal"

\* C7: a worker whose DealMessage invocation has faulted is still running its
\* receive loop.
C7_WorkerSurvivesFault ==
    \A w \in Workers : faulted[w] # <<>> => wpc[w] \in {"recv", "deal", "exited"}

\* C8: under AutoCommitMode 1 the transport has received exactly one
\* CommitMessage for every message whose SendToChannel has returned, in order
\* and after its enqueue, no bulk Commit at all, and whenever the loop is not
\* inside SendToChannel every message event received so far is committed.
C8_CommitPerMessage ==
    param.AutoCommitMode = 1 =>
        /\ Len(commitLog) = Dispatched
        /\ \A k \in 1..Len(commitLog) : commitLog[k] = MsgCommit(sent[k].msg)
        /\ lpc \notin {"send", "commit"} => Len(commitLog) = delivered

\* AutoCommitMode 1: two messages were received and Close has returned.
C8_Witness ==
    /\ param.AutoCommitMode = 1
    /\ delivered >= 2
    /\ closePc = "returned"

\* C9: the loop issues its final bulk Commit exactly once, as its last call
\* before wg.Done(), if and only if AutoCommitMode is not 1; under
\* AutoCommitMode 2 no other commit call is ever made.
C9_FinalCommit ==
    /\ ~LoopOver => CommitsAt("final") = 0
    /\ LoopOver =>
          /\ CommitsAt("final") = (IF param.AutoCommitMode # 1 THEN 1 ELSE 0)
          /\ param.AutoCommitMode # 1 =>
                commitLog[Len(commitLog)] = BulkCommit("final")
    /\ wg = 0 => LoopOver
    /\ param.AutoCommitMode = 2 => CommitsAt("final") = Len(commitLog)

\* AutoCommitMode 2: messages were dispatched, the loop has exited and the only
\* commit call is the final one.
C9_Witness ==
    /\ param.AutoCommitMode = 2
    /\ Dispatched >= 2
    /\ lpc = "exited"
    /\ commitLog = <<BulkCommit("final")>>

\* C10: a queue is closed only after the loop goroutine has signalled
\* completion, the loop never faults on a send to a closed queue, and the
\* transport is closed only after every queue has been closed.
C10_ShutdownOrder ==
    /\ (\E w \in Workers : qclosed[w]) => (lpc = "exited" /\ wg = 0)
    /\ lpc # "panicked"
    /\ consumerClosed => \A w \in Workers : qclosed[w]

\* Close has returned on a consumer that dispatched messages to two workers.
C10_Witness ==
    /\ ThreadNum = 2
    /\ consumerClosed
    /\ Len(sent) >= 2
    /\ closePc = "returned"

\* C11: a call of Close made after an earlier call has returned does not fault,
\* does not block, and leaves the queues and the transport as they are.
C11_CloseIdempotent ==
    closeCalls >= 2 =>
        /\ closePc # "panicked"
        /\ ~(closePc = "signal" /\ Len(exit) >= ExitCap /\ LoopOver)

\* C12: a ThreadNum that is unset or not positive gives 51 workers, and for the
\* effective count N the ring's members are the decimal numerals of 0..N-1
\* (each once, without leading zeros) and there are N queues and N worker loops.
C12_WorkerCount ==
    LET N == IF givenThreadNum <= 0 THEN 51 ELSE givenThreadNum IN
        /\ ThreadNum = N
        /\ Cardinality(sis.members) = N
        /\ \A m \in sis.members :
              /\ ~Atoi(m).err
              /\ Atoi(m).val \in 0..(N - 1)
              /\ Len(m) > 1 => Head(m) # "0"
        /\ \A i \in 0..(N - 1) : \E m \in sis.members : Atoi(m).val = i
        /\ DOMAIN queuelist = 0..(N - 1)
        /\ DOMAIN qclosed = 0..(N - 1)
        /\ DOMAIN wpc = 0..(N - 1)

\* A consumer built with ThreadNum unset whose worker 50 has handled a message.
C12_Witness ==
    /\ givenThreadNum = 0
    /\ done[50] # <<>>

\* The loop goroutine is inside SendToChannel at queuelist[mod] <- msg and the
\* destination queue holds 2 messages.
SendBlocked ==
    /\ lpc = "send"
    /\ Destination(lmsg) \in Workers
    /\ Len(queuelist[Destination(lmsg)]) >= 2

\* C13: a queue never holds more than 2 messages; while the destination queue
\* is full no step polls, commits or enqueues anywhere and the loop keeps its
\* message, and the send, once it happens, appends that message to the
\* destination queue.
C13_Backpressure ==
    /\ [](\A w \in Workers : Len(queuelist[w]) <= 2)
    /\ [][SendBlocked =>
            /\ lpc' = "send"
            /\ lmsg' = lmsg
            /\ delivered' = delivered
            /\ commitLog' = commitLog
            /\ sent' = sent
            /\ \A w \in Workers : Len(queuelist'[w]) <= Len(queuelist[w])]_vars
    /\ [][(lpc = "send" /\ lpc' # "send") =>
            /\ lpc' = "commit"
            /\ queuelist' = [queuelist EXCEPT ![Destination(lmsg)] = Append(@, lmsg)]
            /\ Len(queuelist[Destination(lmsg)]) < 2]_vars

\* Two workers; the loop is blocked with the third message on the full queue of
\* a worker that has not yet taken its first one.
C13_Witness ==
    /\ SendBlocked
    /\ ThreadNum = 2
    /\ wpc[Destination(lmsg)] = "recv"
    /\ lmsg.id = 3

\* The positions of the loop goroutine inside for handle.isclose == false.
Running == {"check", "poll", "select", "backoff", "assign", "unassign", "send", "commit"}

\* C14: the loop goroutine is past its loop only if Close has set isclose; it
\* leaves the loop only from the loop condition, never from the handling of an
\* event and never by a fault; wg.Done is called once, as its last step.
C14_LoopEndsOnlyOnClose ==
    /\ []((lpc \in {"final", "wgdone", "exited"}) => (isclose /\ closeCalls > 0))
    /\ [](lpc # "panicked")
    /\ [](wg = IF lpc = "exited" THEN 0 ELSE 1)
    /\ [][(lpc \in Running /\ lpc' \notin Running) =>
            (lpc = "check" /\ isclose /\ lpc' = "final")]_vars
    /\ [][wg' # wg => (lpc = "wgdone" /\ lpc' = "exited" /\ wg' = wg - 1)]_vars

\* The loop goroutine has ended after dispatching every record of the topic.
C14_Witness ==
    /\ lpc = "exited"
    /\ wg = 0
    /\ Len(sent) = MaxMsgs

\* C15: the loop goroutine is never held at the queue of a worker that a
\* handler fault has ended, so it goes on dispatching to the other workers.
C15_LoopSurvivesDeadWorker ==
    \A w \in Workers :
        wpc[w] = "dead" => ~(SendBlocked /\ Destination(lmsg) = w)

\* The positions of the loop goroutine before the Running loop.
Subscribing == {"subscribe", "subsleep"}

\* C16: Start only spawns the goroutine; until a SubscribeTopics call has
\* succeeded the goroutine is in the retry loop and nothing has been polled,
\* dispatched or committed; a failed attempt leads to the sleep and from there
\* to the next attempt, every time; a successful one leads into the loop.
C16_SubscribeBeforeRunning ==
    /\ [](~subscribed =>
            /\ lpc \in {"idle"} \cup Subscribing
            /\ delivered = 0 /\ sent = <<>> /\ commitLog = <<>>
            /\ \A w \in Workers : queuelist[w] = <<>>)
    /\ [](subscribed => lpc \notin {"idle"} \cup Subscribing)
    /\ [](lpc = "idle" => ENABLED Start)
    /\ [](lpc = "subsleep" => ENABLED LoopSubscribeRetry)
    /\ [][lpc = "idle" => (lpc' = "subscribe" /\ ~subscribed')]_lpc
    /\ [][lpc = "subsleep" => lpc' = "subscribe"]_lpc
    /\ [][lpc = "subscribe" =>
            \/ subscribed' /\ lpc' = "check"
            \/ ~subscribed' /\ lpc' = "subsleep"]_lpc

\* A subscription attempt has failed, Close has been called meanwhile, and the
\* goroutine is asleep before its next attempt.
C16_Witness ==
    /\ lpc = "subsleep"
    /\ ~subscribed
    /\ isclose

\* C17: every call on the transport's commit interface is made by a step of
\* the loop goroutine, at the commit policy of SendToChannel for the message
\* just enqueued or at the final commit, whatever the workers are doing; no
\* step of a worker adds a commit.
C17_CommitsFromLoopOnly ==
    /\ [](lpc = "commit" => (ENABLED LoopCommit /\ sent[Len(sent)].msg = lmsg))
    /\ [](lpc = "final" => ENABLED LoopFinalCommit)
    /\ [][commitLog' # commitLog =>
            /\ lpc \in {"commit", "final"}
            /\ lpc' # lpc
            /\ Len(commitLog') = Len(commitLog) + 1
            /\ SubSeq(commitLog', 1, Len(commitLog)) = commitLog
            /\ UNCHANGED <<wpc, wmsg, began, done, faulted, queuelist>>]_vars
    /\ [][(wpc' # wpc \/ done' # done \/ began' # began) =>
            commitLog' = commitLog]_vars

\* AutoCommitMode 1: the offset of a message has been committed and the loop
\* has moved on while the message is still in its queue, DealMessage not begun.
C17_Witness ==
    /\ param.AutoCommitMode = 1
    /\ lpc # "commit"
    /\ \E k \in 1..Len(commitLog) :
          /\ commitLog[k] = MsgCommit(sent[k].msg)
          /\ \E j \in 1..Len(queuelist[sent[k].mod]) :
                queuelist[sent[k].mod][j] = sent[k].msg
          /\ sent[k].msg.id \notin SeqToSet(began[sent[k].mod])

\* AutoCommitMode 0: the final Commit has been issued while a dispatched message
\* is inside DealMessage.
FinalCommitBeforeHandled ==
    /\ param.AutoCommitMode = 0
    /\ BulkCommit("final") \in SeqToSet(commitLog)
    /\ \E w \in Workers : wpc[w] = "deal"

\* The message state of the consumer: what was polled, enqueued and committed.
msgState == <<broker, delivered, lmsg, index, sent, commitLog, queuelist>>

\* C18: a step that handles an event other than a message leaves the message
\* state unchanged and leads back to the loop condition, through the backoff
\* sleep for ErrAllBrokersDown (poll mode) and through one Assign or one
\* Unassign call for an assignment or a revocation (event-channel mode); the
\* loop reaches SendToChannel only by a message event, and enqueues and commits
\* happen only inside SendToChannel and at the final commit.
C18_OnlyMessagesChangeState ==
    /\ [][\A ev \in PollEvents \ {"Message"} :
            LoopPollEvent(ev) =>
                /\ UNCHANGED msgState
                /\ lpc' = IF ev = "ErrAllBrokersDown" THEN "backoff" ELSE "check"]_vars
    /\ [][\A ev \in SelectEvents \ {"Message"} :
            LoopSelectEvent(ev) =>
                /\ UNCHANGED msgState
                /\ lpc' = IF ev = "AssignedPartitions" THEN "assign"
                          ELSE IF ev = "RevokedPartitions" THEN "unassign"
                          ELSE "check"]_vars
    /\ [][(lpc \in {"backoff", "assign", "unassign"}) =>
            /\ UNCHANGED msgState
            /\ lpc' = "check"]_lpc
    /\ [][lpc' = "send" =>
            (lpc \in {"poll", "select"} /\ delivered' = delivered + 1)]_lpc
    /\ [][sent' # sent => lpc = "send"]_vars
    /\ [][commitLog' # commitLog => lpc \in {"commit", "final"}]_vars
    /\ [](lpc \in {"select", "assign", "unassign"} => param.ConsumerMode = 1)
    /\ [](lpc \in {"poll", "backoff"} => param.ConsumerMode = 0)

\* Event-channel mode: an assignment event has arrived after a message was
\* dispatched, and the loop is about to call Assign.
C18_Witness ==
    /\ lpc = "assign"
    /\ Len(sent) > 0

\* C19: every dispatched message went to a worker index in 0..ThreadNum-1; a
\* keyed message whose ring lookup succeeded with a numeral went to the worker
\* that numeral names, and every other message, keyless or keyed with a failed
\* lookup or a name that is not a numeral, went to partition mod ThreadNum.
C19_DestinationInRange ==
    /\ lpc # "panicked"
    /\ \A k \in 1..Len(sent) :
          LET m == sent[k].msg
              found == m.key # "" /\ sis.members # {}
              numeral == /\ found
                         /\ sis.hash[m.key] # <<>>
                         /\ \A j \in 1..Len(sis.hash[m.key]) : IsDigit(sis.hash[m.key][j])
          IN  /\ sent[k].mod \in 0..(ThreadNum - 1)
              /\ IF numeral THEN Sprintf_d(sent[k].mod) = sis.hash[m.key]
                 ELSE sent[k].mod = m.partition % ThreadNum

\* A keyed message of partition 1 whose key the ring maps to a name that is not
\* a numeral has been dispatched to worker 1 of 2.
C19_Witness ==
    \E k \in 1..Len(sent) :
        /\ sent[k].msg.key # ""
        /\ sis.members # {}
        /\ sis.hash[sent[k].msg.key] = NotNumeral
        /\ sent[k].msg.partition = 1
        /\ sent[k].mod = 1

\* A keyed message of partition 1 has been dispatched to worker 1 of 2 after the
\* ring lookup failed.
RingErrorFallsBack ==
    \E k \in 1..Len(sent) :
        /\ sent[k].msg.key # ""
        /\ sis.members = {}
        /\ sent[k].msg.partition = 1
        /\ sent[k].mod = 1

====
